---- MODULE Spec2Model ----
(***************************************************************************)
(* State-machine model of the music-bingo bot (hits-bot):                  *)
(*   main.py      per-chat game state and the game:* callback handlers     *)
(*   db.py        the SQLite tables tracks and admin_tokens                *)
(*   admin_web.py the admin panel: login, sessions and the guarded routes  *)
(* Handlers are coroutines on one event loop: a handler runs atomically    *)
(* from one await to the next, and handlers of different updates or        *)
(* requests interleave at their awaits.  Each action below is one such     *)
(* atomic stretch of a handler.                                            *)
(***************************************************************************)
EXTENDS Integers, Sequences, FiniteSets, Bags, TLC

\* ---------------------------------------------------------------- bounds
\* track ids the AUTOINCREMENT counter may hand out
MaxTracks == 2
\* game:next callbacks followed in one undisturbed run of a chat
MaxNexts == 3
\* admin tokens /admin_link may issue
MaxTokens == 2
\* broadcast ids the AUTOINCREMENT counter may hand out
MaxBroadcasts == 1
\* the latest time the clock shows, in half seconds
MaxClock == 1202

\* int(os.getenv("MIN_TRACKS", "1"))
MIN_TRACKS == 1

\* the chats (c.message.chat.id) that games may hold a key for
Chats == {"chatA", "chatB"}
\* the handler tasks the dispatcher may have in flight at once: two, so
\* that any two callbacks can overlap at their awaits
Slots == {"task1", "task2"}
TrackIds == 1..MaxTracks

VARIABLES
    tracks,     \* table tracks: id -> row (id, film_title, hint, file_id)
    next_id,    \* AUTOINCREMENT: the id the next INSERT gets
    games,      \* dict games: chat -> GameState, NoGame = no key
    tasks,      \* bag of the callback handlers in flight, with their locals
    out,        \* the messages the bot sent in the last step
    walk,       \* history: per chat, the undisturbed run since its last start
    admin_tokens,   \* table admin_tokens: token -> (user_id, expires_at)
    issued,     \* history: every row ever inserted into admin_tokens
    clock,      \* time.time(), in half seconds
    session,    \* per HTTP client, request.session's adm_ok
    logins,     \* bag of the login_post requests in flight, with their locals
    web,        \* the HTTP request answered last, and its outcome
    granted,    \* history: per token, the consume calls that returned a user
    SESSION_SECRET, \* os.getenv("SESSION_SECRET", "")
    files,      \* the files under uploads/: (directory, name) -> content
    broadcasts, \* table broadcasts: id -> (title, text, sent)
    next_bid,   \* AUTOINCREMENT of broadcasts
    broadcast_media,    \* table broadcast_media, in the order of its ids
    users,      \* table users: user_id -> (username, first_name, last_name)
    poll,       \* run_bot: its delay, its position, the crashes so far
    starts,     \* history: the /start commands whose save_user has run
    seen        \* per HTTP client, the admin tokens its responses disclosed

\* the state of main.py that the admin panel leaves alone
gameVars == <<games, tasks, out, walk, poll, starts>>
dbVars == <<tracks, next_id>>
panelVars == <<files, broadcasts, next_bid, broadcast_media, users>>
webVars == <<admin_tokens, issued, clock, session, logins, web, granted,
            SESSION_SECRET, seen, files, broadcasts, next_bid, broadcast_media,
            users, poll, starts>>
vars == <<tracks, next_id, games, tasks, out, walk,
          admin_tokens, issued, clock, session, logins, web, granted,
          SESSION_SECRET, seen, files, broadcasts, next_bid, broadcast_media, users,
          poll, starts>>

\* ------------------------------------------------------------- helpers
Max(a, b) == IF a >= b THEN a ELSE b
Min(a, b) == IF a <= b THEN a ELSE b
Range(s) == {s[i] : i \in 1..Len(s)}

RECURSIVE SortedSeq(_)
SortedSeq(S) ==
    IF S = {} THEN <<>>
    ELSE LET m == CHOOSE x \in S : \A y \in S : x <= y
         IN  <<m>> \o SortedSeq(S \ {m})

\* a row of tracks; hint and file_id are 0 for the empty string
Row(id, title, hint, file) ==
    [id |-> id, film_title |-> title, hint |-> hint, file_id |-> file]
\* fetchone() of an empty result
None == Row(0, 0, 0, 0)

\* ------------------------------------------------------------- db.py
\* SELECT id, film_title, hint, file_id FROM tracks ORDER BY id
get_all_tracks ==
    LET ids == SortedSeq(DOMAIN tracks)
    IN  [i \in 1..Len(ids) |-> tracks[ids[i]]]

\* SELECT ... FROM tracks WHERE id=?
get_track_by_id(track_id) ==
    IF track_id \in DOMAIN tracks THEN tracks[track_id] ELSE None

\* INSERT INTO tracks (film_title, hint, file_id): the table afterwards
add_track(film_title, hint, file_id) ==
    [i \in DOMAIN tracks \cup {next_id} |->
        IF i = next_id THEN Row(next_id, film_title, hint, file_id)
        ELSE tracks[i]]

remove_track_and_later(track_id) ==
    [i \in {j \in DOMAIN tracks : j < track_id} |-> tracks[i]]

\* DELETE FROM tracks WHERE id=?: the table afterwards
remove_track(track_id) ==
    [i \in DOMAIN tracks \ {track_id} |-> tracks[i]]

\* cur.rowcount > 0 of that DELETE
remove_track_result(track_id) == track_id \in DOMAIN tracks

\* cur.lastrowid of that INSERT
add_track_result == next_id

\* create_track = add_track, called on its own
create_track(film_title, hint, file_id) ==
    /\ next_id <= MaxTracks
    /\ tracks' = add_track(film_title, hint, file_id)
    /\ next_id' = next_id + 1
    /\ UNCHANGED <<games, tasks, out, walk>>
    /\ UNCHANGED webVars

\* delete_track = remove_track, called on its own
delete_track(track_id) ==
    /\ tracks' = remove_track(track_id)
    /\ UNCHANGED <<next_id, games, tasks, out, walk>>
    /\ UNCHANGED webVars


\* ------------------------------------------------------------- main.py
\* @dataclass GameState; NoGame stands for a chat that has no key in games
GameState(order_ids, idx) == [order_ids |-> order_ids, idx |-> idx]
NoGame == GameState(<<>>, -1)

\* mutant of shuffle: draws with replacement (random.choices)
shuffle_with_repeats(s) == [1..Len(s) -> Range(s)]

\* random.shuffle(order_ids): every arrangement of the list
shuffle(s) ==
    {p \in [1..Len(s) -> Range(s)] :
        \A i, j \in 1..Len(s) : i # j => p[i] # p[j]}

games_set_every_chat(chat, state) == [c \in Chats |-> state]

\* games[chat_id] = GameState(...)
games_set(chat, state) == [games EXCEPT ![chat] = state]

games_get_or_new(chat) ==
    IF games[chat] = NoGame THEN GameState(<<1>>, 0) ELSE games[chat]

\* games.get(chat_id)
games_get(chat) == games[chat]

\* mutant of current_id: the subscript is off by one
current_id_off_by_one(state) ==
    state.order_ids[IF state.idx = 0 THEN 1 ELSE state.idx]

\* state.order_ids[state.idx], Python's 0-based subscript
current_id(state) == state.order_ids[state.idx + 1]

\* a message of the bot in a chat, with its inline keyboard
Msg(chat, type, track, i, total, kb) ==
    [chat |-> chat, type |-> type, track |-> track, i |-> i, total |-> total,
     kb |-> kb]

\* A handler's locals.  `state` is the handler's reference to a GameState
\* object: live = TRUE while games still holds that object (the handler then
\* reads games[chat]); once a start or restart has put a new object in
\* games the old one is never written again (cb_next writes only the object
\* games.get returns in the same stretch), so the reference is kept as the
\* value the object had when it was replaced.
Live == [live |-> TRUE, order_ids |-> <<>>, idx |-> 0]
Frozen(state) ==
    [live |-> FALSE, order_ids |-> state.order_ids, idx |-> state.idx]
Task(kind, chat, pc, tr, tid, row, state) ==
    [kind |-> kind, chat |-> chat, pc |-> pc, tr |-> tr, tid |-> tid,
     row |-> row, state |-> state]
Deref(t) == IF t.state.live THEN games[t.chat] ELSE t.state

InFlight == BagToSet(tasks)
Spawn(u) == tasks (+) SetToBag({u})
Drop(t) == tasks (-) SetToBag({t})
Step(t, u) == Drop(t) (+) SetToBag({u})
\* the dispatcher starts a handler for the update (handle_as_tasks)
CanDispatch == BagCardinality(tasks) < Cardinality(Slots)
Busy(chat) == \E u \in InFlight : u.chat = chat

\* History of a chat's run, kept while it is undisturbed: opened by a start
\* or restart that found no other handler of the chat in flight, closed by
\* an overlapping callback of the chat or a deletion of a track.  sends are
\* the send_audio calls since the start, nexts the game:next callbacks,
\* ends the END_GAME messages.
NoWalk == [ok |-> FALSE, sends |-> <<>>, nexts |-> 0, ends |-> 0]
NewWalk == [ok |-> TRUE, sends |-> <<>>, nexts |-> 0, ends |-> 0]
Overlap(chat) ==
    IF Busy(chat) THEN [walk EXCEPT ![chat] = NoWalk] ELSE walk
NextsLeft(chat) == walk[chat].ok => walk[chat].nexts < MaxNexts

\* cb_start / cb_restart up to the SELECT of `await get_all_tracks()`
cb_start_call(chat, kind) ==
    /\ CanDispatch
    /\ tasks' = Spawn(Task(kind, chat, "shuffle", get_all_tracks, 0, None, Live))
    /\ walk' = [walk EXCEPT ![chat] = IF Busy(chat) THEN NoWalk ELSE NewWalk]
    /\ out' = <<>>
    /\ UNCHANGED <<tracks, next_id, games>>
    /\ UNCHANGED webVars

cb_start(chat) == cb_start_call(chat, "cb_start")
cb_restart(chat) == cb_start_call(chat, "cb_restart")

enough_tracks_always(tr) == TRUE

enough_tracks_off_by_one(tr) == ~(Len(tr) < Max(MIN_TRACKS, 1) - 1)

\* the track-count check of cb_start and cb_restart
enough_tracks(tr) == ~(Len(tr) < Max(MIN_TRACKS, 1))

\* order_ids = [t[0] for t in tracks]
ids_of(tr) == [i \in 1..Len(tr) |-> tr[i].id]

\* games[chat] = GameState(...): handlers of the chat that hold the object
\* replaced keep it as it is now
Replaced(t, chat) ==
    IF /\ t.chat = chat /\ t.state.live /\ t.pc \in {"get_track_by_id", "row"}
       /\ t.kind \in {"cb_start", "cb_next"}
    THEN [t EXCEPT !.state = Frozen(games[chat])]
    ELSE t

\* cb_start / cb_restart from the return of get_all_tracks to the await of
\* the START_GAME message: the count check, the shuffle, the assignment
cb_start_shuffle(t) ==
    /\ t.pc = "shuffle"
    /\ IF ~enough_tracks(t.tr)
       THEN /\ tasks' = Drop(t)
            /\ walk' = [walk EXCEPT ![t.chat] = NoWalk]
            /\ out' = <<Msg(t.chat, "warning", 0, Len(t.tr),
                            Max(MIN_TRACKS, 1), "none")>>
            /\ UNCHANGED games
       ELSE \E order_ids \in shuffle(ids_of(t.tr)) :
            /\ games' = games_set(t.chat, GameState(order_ids, 0))
            \* what follows the message is the same in both handlers
            /\ tasks' = LET F(u) == Replaced(u, t.chat)
                        IN  BagOfAll(F, Drop(t)) (+)
                            SetToBag({[t EXCEPT !.tr = <<>>, !.kind = "cb_start",
                                                !.pc = "send_current_track"]})
            /\ walk' = walk
            /\ out' = <<Msg(t.chat, IF t.kind = "cb_start" THEN "start_game"
                                    ELSE "restart_game", 0, 0, 0, "none")>>
    /\ UNCHANGED <<tracks, next_id>>
    /\ UNCHANGED webVars

\* send_current_track up to `await get_track_by_id(...)`: the handler keeps
\* the GameState object and the id it looks up
sct_enter(t, state) ==
    [t EXCEPT !.state = Live, !.tid = current_id(state),
              !.pc = "get_track_by_id"]

\* send_current_track as called by cb_start / cb_restart
send_current_track(t) ==
    /\ t.pc = "send_current_track"
    /\ tasks' = IF games_get(t.chat) = NoGame THEN Drop(t)
                ELSE Step(t, sct_enter(t, games_get(t.chat)))
    /\ out' = <<>>
    /\ UNCHANGED <<tracks, next_id, games, walk>>
    /\ UNCHANGED webVars

\* the SELECT of get_track_by_id in send_current_track runs
send_current_track_select(t) ==
    /\ t.pc = "get_track_by_id"
    /\ t.kind \in {"cb_start", "cb_next"}
    /\ tasks' = Step(t, [t EXCEPT !.row = get_track_by_id(t.tid), !.tid = 0,
                                  !.pc = "row"])
    /\ out' = <<>>
    /\ UNCHANGED <<tracks, next_id, games, walk>>
    /\ UNCHANGED webVars

\* caption = TRACK_X_OF_Y(i=state.idx + 1, total=len(state.order_ids)) and
\* the send_audio call; ok = FALSE when Telegram refuses the audio
audio_msg(chat, row, state, ok) ==
    Msg(chat, IF ok THEN "audio" ELSE "audio_failed", row.id,
        state.idx + 1, Len(state.order_ids), "track_full")

\* send_current_track from the return of get_track_by_id on: the caption is
\* read from the GameState object as it is now
send_current_track_send(t) ==
    /\ t.pc = "row"
    /\ tasks' = Drop(t)
    /\ \E ok \in BOOLEAN :
        LET sends == IF t.row = None
                     THEN <<Msg(t.chat, "not_found", 0, 0, 0, "none")>>
                     ELSE <<audio_msg(t.chat, t.row, Deref(t), ok)>>
            w == walk[t.chat]
        IN  /\ t.row = None => ok
            /\ out' = sends
            /\ walk' = IF w.ok
                       THEN [walk EXCEPT ![t.chat].sends = @ \o sends,
                                         ![t.chat].nexts =
                                            IF t.kind = "cb_next" THEN @ + 1
                                            ELSE @]
                       ELSE walk
    /\ UNCHANGED <<tracks, next_id, games>>
    /\ UNCHANGED webVars

\* mutant of has_next: the game ends one track early
has_next_early(state) == state.idx < Len(state.order_ids) - 2

\* state.idx < len(state.order_ids) - 1
has_next(state) == state.idx < Len(state.order_ids) - 1

\* cb_next up to its first await
cb_next(chat) ==
    LET state == games_get(chat)
    IN
    /\ CanDispatch
    /\ NextsLeft(chat)
    /\ IF state = NoGame
       THEN /\ UNCHANGED <<games, tasks>>
            /\ walk' = Overlap(chat)
            /\ out' = <<>>
       ELSE IF has_next(state)
       THEN /\ games' = [games EXCEPT ![chat].idx = @ + 1]
            /\ tasks' = Spawn(sct_enter(
                            Task("cb_next", chat, "", <<>>, 0, None, Live),
                            [state EXCEPT !.idx = @ + 1]))
            /\ walk' = Overlap(chat)
            /\ out' = <<>>
       ELSE /\ UNCHANGED <<games, tasks>>
            /\ walk' = IF Busy(chat) \/ ~walk[chat].ok THEN Overlap(chat)
                       ELSE [walk EXCEPT ![chat].nexts = @ + 1,
                                         ![chat].ends = @ + 1]
            /\ out' = <<Msg(chat, "end_game", 0, 0, 0, "restart")>>
    /\ UNCHANGED <<tracks, next_id>>
    /\ UNCHANGED webVars

\* cb_hint / cb_answer up to `await get_track_by_id(...)`
cb_lookup(chat, kind) ==
    LET state == games_get(chat)
    IN
    /\ CanDispatch
    /\ tasks' = IF state = NoGame THEN tasks
                ELSE Spawn(Task(kind, chat, "get_track_by_id", <<>>,
                                current_id(state), None, Live))
    /\ walk' = Overlap(chat)
    /\ out' = <<>>
    /\ UNCHANGED <<tracks, next_id, games>>
    /\ UNCHANGED webVars

cb_hint(chat) == cb_lookup(chat, "cb_hint")
cb_answer(chat) == cb_lookup(chat, "cb_answer")

\* mutant of cb_hint_send: a missing track is reported to the chat
cb_hint_send_not_found(t) ==
    LET row == get_track_by_id(t.tid)
    IN
    /\ t.pc = "get_track_by_id"
    /\ t.kind = "cb_hint"
    /\ tasks' = Drop(t)
    /\ \E ok \in BOOLEAN :
        /\ (row = None \/ row.hint = 0) => ok
        /\ out' = IF row = None
                  THEN <<Msg(t.chat, "not_found", 0, 0, 0, "none")>>
                  ELSE IF ~ok THEN <<>>
                  ELSE IF row.hint # 0
                  THEN <<Msg(t.chat, "hint", row.id, 0, 0, "after_hint")>>
                  ELSE <<Msg(t.chat, "no_hint", 0, 0, 0, "none")>>
    /\ UNCHANGED <<tracks, next_id, games, walk>>
    /\ UNCHANGED webVars

\* cb_hint from the SELECT of get_track_by_id on; ok = FALSE when the photo
\* cannot be sent and the handler ends with the exception
cb_hint_send(t) ==
    LET row == get_track_by_id(t.tid)
    IN
    /\ t.pc = "get_track_by_id"
    /\ t.kind = "cb_hint"
    /\ tasks' = Drop(t)
    /\ \E ok \in BOOLEAN :
        /\ (row = None \/ row.hint = 0) => ok
        /\ out' = IF row = None \/ ~ok THEN <<>>
                  ELSE IF row.hint # 0
                  THEN <<Msg(t.chat, "hint", row.id, 0, 0, "after_hint")>>
                  ELSE <<Msg(t.chat, "no_hint", 0, 0, 0, "none")>>
    /\ UNCHANGED <<tracks, next_id, games, walk>>
    /\ UNCHANGED webVars

\* mutant of cb_answer_send: a missing track drops the chat's game
cb_answer_send_pop(t) ==
    LET row == get_track_by_id(t.tid)
    IN
    /\ t.pc = "get_track_by_id"
    /\ t.kind = "cb_answer"
    /\ tasks' = Drop(t)
    /\ games' = IF row = None THEN [games EXCEPT ![t.chat] = NoGame] ELSE games
    /\ \E ok \in BOOLEAN :
        /\ row = None => ok
        /\ out' = IF row = None \/ ~ok THEN <<>>
                  ELSE <<Msg(t.chat, "answer", row.id, 0, 0, "after_answer")>>
    /\ UNCHANGED <<tracks, next_id, walk>>
    /\ UNCHANGED webVars

\* cb_answer from the SELECT of get_track_by_id on
cb_answer_send(t) ==
    LET row == get_track_by_id(t.tid)
    IN
    /\ t.pc = "get_track_by_id"
    /\ t.kind = "cb_answer"
    /\ tasks' = Drop(t)
    /\ \E ok \in BOOLEAN :
        /\ row = None => ok
        /\ out' = IF row = None \/ ~ok THEN <<>>
                  ELSE <<Msg(t.chat, "answer", row.id, 0, 0, "after_answer")>>
    /\ UNCHANGED <<tracks, next_id, games, walk>>
    /\ UNCHANGED webVars

\* the admin panel deletes a track while the bot runs (delete_track_post)
track_removed(track_id) ==
    /\ remove_track_result(track_id)
    /\ tracks' = remove_track(track_id)
    /\ walk' = [c \in Chats |-> NoWalk]
    /\ out' = <<>>
    /\ UNCHANGED <<next_id, games, tasks>>
    /\ UNCHANGED webVars

\* ------------------------------------------------ admin tokens and login
\* Telegram users that may send /admin_link
Users == {1001, 2002}
\* {int(x) for x in os.getenv("ADMIN_IDS", "").split(",") ...}
ADMIN_IDS == {1001}
\* the browsers (session cookies) that talk to the admin panel
Clients == {"browser1", "browser2"}
\* the tokens secrets.token_urlsafe(24) hands out, in order of issue
Tokens == 1..MaxTokens
\* request.query_params.get("key"): no key parameter, or an empty one
NoKey == -1
\* a key that is no token of the table
BadKey == 0
\* cur.fetchone() finds no row
NoTokenRow == [user_id |-> 0, expires_at |-> 0]
\* consume_admin_token returns None
NoUser == 0
\* admin_link_cmd: create_admin_token(m.from_user.id, ttl_minutes=10)
TTL_MINUTES == 10
\* time.time() is a float: the clock counts half seconds
Hz == 2
\* how far the clock moves between two steps of the program: by the life
\* of a token, by half a second more, by a second more
Jumps == {TTL_MINUTES * 60 * Hz, TTL_MINUTES * 60 * Hz + 1,
          (TTL_MINUTES * 60 + 1) * Hz}
\* the values the environment may give SESSION_SECRET ("" = unset)
Secrets == {"", "hunter2"}
Passwords == {"", "hunter2", "guess"}

Request(op, client, key, now, user_id, status) ==
    [op |-> op, client |-> client, key |-> key, now |-> now,
     user_id |-> user_id, status |-> status]

NoRequest == Request("none", "none", NoKey, 0, NoUser, "none")

\* int(time.time()): the whole seconds of the clock
int_time == clock \div Hz

\* expires = int(time.time()) + ttl_minutes * 60
expires(ttl_minutes) == int_time + ttl_minutes * 60

\* token = secrets.token_urlsafe(24): a token no earlier call returned
token_urlsafe == Len(issued) + 1

create_admin_token(user_id, ttl_minutes) ==
    LET token == token_urlsafe
        row == [user_id |-> user_id, expires_at |-> expires(ttl_minutes)]
    IN  /\ admin_tokens' = (token :> row) @@ admin_tokens
        /\ issued' = Append(issued, [user_id |-> user_id,
                                     expires_at |-> row.expires_at,
                                     created |-> int_time])

is_admin_anybody(user_id) == TRUE

\* `m.from_user.id not in ADMIN_IDS`, negated
is_admin(user_id) == user_id \in ADMIN_IDS

\* /admin_link: the whole handler, the INSERT of create_admin_token and the
\* message with the link included
admin_link_cmd(user_id) ==
    /\ IF ~is_admin(user_id)
       THEN /\ web' = Request("admin_link_cmd", "telegram", NoKey, int_time,
                              user_id,
                              "NEED_ADMIN")
            /\ UNCHANGED <<admin_tokens, issued>>
       ELSE /\ Len(issued) < MaxTokens
            /\ create_admin_token(user_id, TTL_MINUTES)
            /\ web' = Request("admin_link_cmd", "telegram", token_urlsafe,
                              int_time, user_id, "/admin_web?key=")
    /\ UNCHANGED <<clock, session, logins, granted, SESSION_SECRET, seen>>
    /\ UNCHANGED panelVars
    /\ UNCHANGED gameVars
    /\ UNCHANGED dbVars

\* time passes
Tick(d) ==
    /\ clock + d <= MaxClock
    /\ clock' = clock + d
    /\ UNCHANGED <<admin_tokens, issued, session, logins, web, granted,
                   SESSION_SECRET, seen>>
    /\ UNCHANGED panelVars
    /\ UNCHANGED gameVars
    /\ UNCHANGED dbVars

Login(client, key, password, now, row, pc) ==
    [client |-> client, key |-> key, password |-> password, now |-> now,
     row |-> row, pc |-> pc]

LoginsInFlight == BagToSet(logins)

\* login_post from the return of consume_admin_token to the response
login_post_respond(client, key, password, now, user_id) ==
    LET ok1 == user_id # NoUser
        ok == ok1 \/ (~ok1 /\ password # "" /\ password = SESSION_SECRET)
    IN  /\ session' = IF ok THEN [session EXCEPT ![client] = TRUE] ELSE session
        /\ web' = Request("login_post", client, key, now, user_id,
                          IF ok THEN "/admin_web" ELSE "login.html")

\* POST /admin_web/login[?key=...] up to its first await: without a key the
\* whole handler, with a key up to the SELECT of consume_admin_token, whose
\* first statement reads the clock
login_post(client, key, password) ==
    /\ IF key # NoKey
       THEN /\ BagCardinality(logins) < Cardinality(Slots)
            /\ logins' = logins (+) SetToBag({Login(client, key, password,
                                               int_time, NoTokenRow,
                                               "SELECT")})
            /\ UNCHANGED <<session, web>>
       ELSE /\ login_post_respond(client, key, password, int_time, NoUser)
            /\ UNCHANGED logins
    /\ UNCHANGED <<admin_tokens, issued, clock, granted, SESSION_SECRET, seen>>
    /\ UNCHANGED panelVars
    /\ UNCHANGED gameVars
    /\ UNCHANGED dbVars

\* SELECT user_id, expires_at FROM admin_tokens WHERE token=?; fetchone()
consume_admin_token_select(t) ==
    /\ t.pc = "SELECT"
    /\ logins' = (logins (-) SetToBag({t})) (+)
                 SetToBag({[t EXCEPT !.row = IF t.key \in DOMAIN admin_tokens
                                             THEN admin_tokens[t.key]
                                             ELSE NoTokenRow,
                                     !.pc = "DELETE"]})
    /\ UNCHANGED <<admin_tokens, issued, clock, session, web, granted,
                   SESSION_SECRET, seen>>
    /\ UNCHANGED panelVars
    /\ UNCHANGED gameVars
    /\ UNCHANGED dbVars

delete_token_if_fresh(token, row, now) ==
    IF row # NoTokenRow /\ row.expires_at < now
    THEN admin_tokens
    ELSE [k \in DOMAIN admin_tokens \ {token} |-> admin_tokens[k]]

\* DELETE FROM admin_tokens WHERE token=?; commit()
delete_token(token, row, now) ==
    [k \in DOMAIN admin_tokens \ {token} |-> admin_tokens[k]]

user_of_row_strict(row, now) ==
    IF row = NoTokenRow THEN NoUser
    ELSE IF row.expires_at <= now THEN NoUser
    ELSE row.user_id

\* if not row: return None; if exp < now: return None; return user_id
user_of_row(row, now) ==
    IF row = NoTokenRow THEN NoUser
    ELSE IF row.expires_at < now THEN NoUser
    ELSE row.user_id

\* consume_admin_token from its DELETE on, and the rest of login_post
consume_admin_token_delete(t) ==
    /\ t.pc = "DELETE"
    /\ admin_tokens' = delete_token(t.key, t.row, t.now)
    /\ LET user_id == user_of_row(t.row, t.now)
       IN  /\ granted' = IF user_id # NoUser
                         THEN [granted EXCEPT ![t.key] = @ + 1]
                         ELSE granted
           /\ login_post_respond(t.client, t.key, t.password, t.now, user_id)
    /\ logins' = logins (-) SetToBag({t})
    /\ UNCHANGED <<issued, clock, SESSION_SECRET, seen>>
    /\ UNCHANGED panelVars
    /\ UNCHANGED gameVars
    /\ UNCHANGED dbVars

WebInit ==
    /\ admin_tokens = <<>>
    /\ issued = <<>>
    /\ clock = 0
    /\ session = [c \in Clients |-> FALSE]
    /\ logins = EmptyBag
    /\ web = NoRequest
    /\ granted = [k \in Tokens |-> 0]
    /\ files = <<>>
    /\ broadcasts = <<>>
    /\ next_bid = 1
    /\ broadcast_media = <<>>

\* ------------------------------------------------ the admin panel routes
\* Strings of the tables are numbers here, 0 for the empty string:
\* f"Хит #{seq:02d}", the title of a track that was uploaded without one
default_title(seq) == 100 + seq
\* os.path.join("uploads", "audio", f"Музыкальное бинго — {n:02d}.mp3")
audio_path(n) == n
\* os.path.splitext(filename)[1] or ".jpg": 1 is ".jpg", 2 is ".png"
ext_or_jpg(ext) == IF ext = 0 THEN 1 ELSE ext
\* os.path.join("uploads", "hints", f"hint_{n:02d}{ext}")
hint_path(n, ext) == 10 * n + ext

\* an UploadFile: its filename (0 = none), the extension of the filename
\* (0 = none) and its content
Upload(filename, ext, body) == [filename |-> filename, ext |-> ext, body |-> body]
NoUpload == Upload(0, 0, 0)

\* aiofiles.open(path, "wb"), write: the files afterwards
write_file(fs, dir, name, body) ==
    [p \in DOMAIN fs \cup {<<dir, name>>} |->
        IF p = <<dir, name>> THEN body ELSE fs[p]]

\* the answer to a request of the panel: op is login_post or logout, or
\* "_need_auth" when the guard of a route has answered, or "route" when a
\* guarded route has run past its guard
Answer(op, client, status) ==
    Request(op, client, NoKey, int_time, NoUser, status)

_is_authed_always(client) == TRUE

\* _is_authed: bool(request.session.get("adm_ok"))
_is_authed(client) == session[client]

\* _need_auth: the redirect to the login page, or "" for None
_need_auth(client) ==
    IF ~_is_authed(client) THEN "/admin_web/login" ELSE ""

\* GET /admin_web/logout: request.session.clear()
logout(client) ==
    /\ session' = [session EXCEPT ![client] = FALSE]
    /\ web' = Answer("logout", client, "/admin_web/login")
    /\ UNCHANGED <<admin_tokens, issued, granted, clock, logins,
                   SESSION_SECRET, seen>>
    /\ UNCHANGED panelVars
    /\ UNCHANGED gameVars
    /\ UNCHANGED dbVars

\* a guarded route that only reads: the guard, then the page
page(client) ==
    LET guard == _need_auth(client)
    IN  /\ web' = IF guard # "" THEN Answer("_need_auth", client, guard)
                  ELSE Answer("route", client, "ok")
        /\ UNCHANGED <<admin_tokens, issued, granted, clock, session, logins,
                       SESSION_SECRET, seen>>
        /\ UNCHANGED panelVars
        /\ UNCHANGED gameVars
        /\ UNCHANGED dbVars

\* GET /admin_web[?key=...]: the handler never reads the query string
tracks_page(client, key) == page(client)

\* GET /admin_web/edit/{track_id}
edit_track_page(client, track_id) ==
    page(client)

\* GET /admin_web/backup: the ZIP is a temporary file outside uploads/
backup_download(client) ==
    page(client)

\* GET /admin_web/broadcasts
broadcasts_list(client) ==
    page(client)

\* GET /admin_web/broadcasts/new
broadcasts_new(client) ==
    page(client)

\* what a guarded route that writes leaves alone
route_frame ==
    /\ UNCHANGED <<issued, granted, clock, session, logins, SESSION_SECRET, seen>>
    /\ UNCHANGED <<games, tasks, walk, poll, starts>>

\* the guard of a guarded route that writes has answered with the redirect
redirected(client) ==
    /\ web' = Answer("_need_auth", client, _need_auth(client))
    /\ UNCHANGED <<admin_tokens, out>>
    /\ UNCHANGED panelVars
    /\ UNCHANGED dbVars
    /\ route_frame

\* POST /admin_web/upload, with local storage (r2_enabled() is False)
upload_track(client, title, audio, hint) ==
    IF _need_auth(client) # "" THEN redirected(client)
    ELSE
        /\ next_id <= MaxTracks
        /\ LET seq == Len(get_all_tracks) + 1
               has_audio == audio # NoUpload /\ audio.filename # 0
               has_hint == hint # NoUpload /\ hint.filename # 0
               audio_field == IF has_audio THEN audio_path(seq) ELSE 0
               hint_field == IF has_hint
                             THEN hint_path(seq, ext_or_jpg(hint.ext)) ELSE 0
               fs1 == IF has_audio
                      THEN write_file(files, "audio", audio_field, audio.body)
                      ELSE files
               fs2 == IF has_hint
                      THEN write_file(fs1, "hints", hint_field, hint.body)
                      ELSE fs1
           IN  /\ files' = fs2
               /\ tracks' = add_track(IF title # 0 THEN title
                                      ELSE default_title(seq),
                                      hint_field, audio_field)
               /\ next_id' = next_id + 1
        /\ web' = Answer("route", client, "ok")
        /\ UNCHANGED <<admin_tokens, out, broadcasts, next_bid,
                       broadcast_media, users>>
        /\ route_frame

update_track_and_file(tbl, track_id, film_title, hint) ==
    [i \in DOMAIN tbl |->
        IF i = track_id THEN Row(i, film_title, hint, 0) ELSE tbl[i]]

\* UPDATE tracks SET film_title=?, hint=? WHERE id=?: the table afterwards
update_track(tbl, track_id, film_title, hint) ==
    [i \in DOMAIN tbl |->
        IF i = track_id THEN [tbl[i] EXCEPT !.film_title = film_title,
                                            !.hint = hint]
        ELSE tbl[i]]

\* UPDATE tracks SET file_id=? WHERE id=?: the table afterwards
update_track_file(tbl, track_id, file_id) ==
    [i \in DOMAIN tbl |->
        IF i = track_id THEN [tbl[i] EXCEPT !.file_id = file_id] ELSE tbl[i]]

\* POST /admin_web/edit/{track_id}, with local storage
edit_track_post(client, track_id, title, audio, hint) ==
    IF _need_auth(client) # "" THEN redirected(client)
    ELSE
        /\ LET old == get_track_by_id(track_id)
               old_title == IF old # None THEN old.film_title ELSE 0
               old_hint == IF old # None THEN old.hint ELSE 0
               has_audio == audio # NoUpload /\ audio.filename # 0
               has_hint == hint # NoUpload /\ hint.filename # 0
               hint_field == hint_path(track_id, ext_or_jpg(hint.ext))
               audio_field == audio_path(track_id)
               fs1 == IF has_hint
                      THEN write_file(files, "hints", hint_field, hint.body)
                      ELSE files
               fs2 == IF has_audio
                      THEN write_file(fs1, "audio", audio_field, audio.body)
                      ELSE fs1
               t1 == IF title # 0 \/ has_hint
                     THEN update_track(tracks, track_id,
                                       IF title # 0 THEN title ELSE old_title,
                                       IF has_hint THEN hint_field
                                       ELSE old_hint)
                     ELSE tracks
               t2 == IF has_audio
                     THEN update_track_file(t1, track_id, audio_field)
                     ELSE t1
           IN  /\ files' = fs2
               /\ tracks' = t2
        /\ web' = Answer("route", client, "ok")
        /\ UNCHANGED <<admin_tokens, out, next_id, broadcasts, next_bid,
                       broadcast_media, users>>
        /\ route_frame

\* POST /admin_web/delete/{track_id}
delete_track_post(client, track_id) ==
    IF _need_auth(client) # "" THEN redirected(client)
    ELSE
        /\ tracks' = remove_track(track_id)
        /\ web' = Answer("route", client, "ok")
        /\ UNCHANGED <<admin_tokens, out, next_id>>
        /\ UNCHANGED panelVars
        /\ route_frame

\* a ZIP archive: its filename (0 = none), the files it holds by directory
\* and name, and the database file it holds under uploads/, if any
Archive(filename, members, db) ==
    [filename |-> filename, members |-> members, db |-> db]
NoDb == [held |-> FALSE]
\* an empty database file: the tables after init_db
EmptyDb == [held |-> TRUE]
NoArchive == Archive(0, <<>>, NoDb)

\* target.startswith(("uploads", "./uploads")): the members that are
\* extracted
under_uploads(members) ==
    {p \in DOMAIN members : p[1] \in {"audio", "hints", "broadcasts"}}

\* POST /admin_web/restore
backup_restore(client, archive) ==
    IF _need_auth(client) # "" THEN redirected(client)
    ELSE IF archive.filename = 0
    THEN /\ web' = Answer("route", client, "ok")
         /\ UNCHANGED <<admin_tokens, out>>
         /\ UNCHANGED panelVars
         /\ UNCHANGED dbVars
         /\ route_frame
    ELSE /\ files' = [p \in DOMAIN files \cup under_uploads(archive.members) |->
                        IF p \in under_uploads(archive.members)
                        THEN archive.members[p] ELSE files[p]]
         /\ IF archive.db.held
            THEN /\ tracks' = <<>>
                 /\ next_id' = 1
                 /\ admin_tokens' = <<>>
                 /\ broadcasts' = <<>>
                 /\ next_bid' = 1
                 /\ broadcast_media' = <<>>
                 /\ users' = <<>>
            ELSE UNCHANGED <<tracks, next_id, admin_tokens, broadcasts,
                             next_bid, broadcast_media, users>>
         /\ web' = Answer("route", client, "ok")
         /\ UNCHANGED out
         /\ route_frame

\* _save_many(lst, kind): the uploads of lst that have a filename
RECURSIVE saved(_, _)
saved(lst, kind) ==
    IF lst = <<>> THEN <<>>
    ELSE (IF Head(lst).filename = 0 THEN <<>>
          ELSE <<[kind |-> kind, path |-> Head(lst).filename,
                  body |-> Head(lst).body]>>) \o saved(Tail(lst), kind)

RECURSIVE write_all(_, _)
write_all(fs, ups) ==
    IF ups = <<>> THEN fs
    ELSE write_all(write_file(fs, "broadcasts", Head(ups).path, Head(ups).body),
                   Tail(ups))

\* POST /admin_web/broadcasts/preview
broadcasts_preview(client, title, text, images, videos, docs) ==
    IF _need_auth(client) # "" THEN redirected(client)
    ELSE
        /\ next_bid <= MaxBroadcasts
        /\ LET bid == next_bid
               ups == saved(images, "image") \o saved(videos, "video")
                      \o saved(docs, "file")
           IN  /\ broadcasts' = (bid :> [title |-> title, text |-> text,
                                         sent |-> FALSE]) @@ broadcasts
               /\ next_bid' = next_bid + 1
               /\ files' = write_all(files, ups)
               /\ broadcast_media' = broadcast_media \o
                    [i \in 1..Len(ups) |-> [broadcast_id |-> bid,
                                            kind |-> ups[i].kind,
                                            path |-> ups[i].path]]
        /\ web' = Answer("route", client, "ok")
        /\ UNCHANGED <<admin_tokens, out, users>>
        /\ UNCHANGED dbVars
        /\ route_frame

\* SELECT kind, path FROM broadcast_media WHERE broadcast_id=? ORDER BY id
get_broadcast_media(bid) ==
    SelectSeq(broadcast_media, LAMBDA m : m.broadcast_id = bid)

\* POST /admin_web/broadcasts/delete/{bid}: DELETE FROM broadcasts, and ON
\* DELETE CASCADE on broadcast_media
broadcasts_del(client, bid) ==
    IF _need_auth(client) # "" THEN redirected(client)
    ELSE
        /\ broadcasts' = [b \in DOMAIN broadcasts \ {bid} |-> broadcasts[b]]
        /\ broadcast_media' =
                SelectSeq(broadcast_media, LAMBDA m : m.broadcast_id # bid)
        /\ web' = Answer("route", client, "ok")
        /\ UNCHANGED <<admin_tokens, out, files, next_bid, users>>
        /\ UNCHANGED dbVars
        /\ route_frame

\* SELECT user_id FROM users
get_all_user_ids == SortedSeq(DOMAIN users)

\* POST /admin_web/broadcasts/send/{bid}: one attempt per user, each of
\* which Telegram may refuse
broadcasts_send(client, bid) ==
    IF _need_auth(client) # "" THEN redirected(client)
    ELSE
        /\ LET media == get_broadcast_media(bid)
               text == IF bid \in DOMAIN broadcasts
                       THEN broadcasts[bid].text ELSE 0
               uids == get_all_user_ids
               kind == IF media # <<>> THEN "media_group"
                       ELSE IF text # 0 THEN "message" ELSE "nothing"
           IN  \E refused \in SUBSET Range(uids) :
                  /\ kind = "nothing" => refused = {}
                  /\ out' = IF kind = "nothing" THEN <<>>
                            ELSE [i \in 1..Len(uids) |->
                                    Msg(uids[i], kind, bid,
                                        IF uids[i] \in refused THEN 0 ELSE 1,
                                        0, "none")]
        /\ broadcasts' = [b \in DOMAIN broadcasts |->
                            IF b = bid THEN [broadcasts[b] EXCEPT !.sent = TRUE]
                            ELSE broadcasts[b]]
        /\ web' = Answer("route", client, "ok")
        /\ UNCHANGED <<admin_tokens, files, next_bid, broadcast_media, users>>
        /\ UNCHANGED dbVars
        /\ route_frame

\* ------------------------------------------------------ the game machine
\* the playlist the admin has uploaded: MaxTracks tracks, the first one
\* without a hint image
Playlist ==
    [i \in TrackIds |-> Row(i, 1, IF i = 1 THEN 0 ELSE 1, 1)]

\* run_bot has set delay = 1 and has called start_polling
Polling == [delay |-> 1, pc |-> "start_polling", crashes |-> 0, slept |-> 0]

\* the tables, the dict games and the dispatcher as the program starts
BotInit ==
    /\ tracks = Playlist
    /\ next_id = MaxTracks + 1
    /\ games = [c \in Chats |-> NoGame]
    /\ tasks = EmptyBag
    /\ out = <<>>
    /\ walk = [c \in Chats |-> NoWalk]
    /\ poll = Polling
    /\ starts = <<>>

GameInit ==
    /\ BotInit
    /\ WebInit
    /\ SESSION_SECRET = "hunter2"
    /\ seen = [c \in Clients |-> {}]
    /\ users = <<>>

\* the chats whose buttons are pressed
Players == {"chatA"}

GameNext ==
    \/ \E c \in Players : cb_start(c)
    \/ \E c \in Players : cb_restart(c)
    \/ \E t \in InFlight : cb_start_shuffle(t)
    \/ \E t \in InFlight : send_current_track(t)
    \/ \E t \in InFlight : send_current_track_select(t)
    \/ \E t \in InFlight : send_current_track_send(t)
    \/ \E c \in Players : cb_next(c)
    \/ \E c \in Players : cb_hint(c)
    \/ \E c \in Players : cb_answer(c)
    \/ \E t \in InFlight : cb_hint_send(t)
    \/ \E t \in InFlight : cb_answer_send(t)
    \/ \E i \in TrackIds : track_removed(i)

GameSpec == GameInit /\ [][GameNext]_vars

\* ------------------------------------------------------ the token store
\* the keys a request may carry: the tokens issued so far, and one other
Keys == {BadKey} \cup (1..Len(issued))

TokenInit ==
    /\ BotInit
    /\ WebInit
    /\ SESSION_SECRET = "hunter2"
    /\ seen = [c \in Clients |-> {}]
    /\ users = <<>>

TokenNext ==
    \/ \E u \in Users : admin_link_cmd(u)
    \/ \E d \in Jumps : Tick(d)
    \/ \E k \in Keys : login_post("browser1", k, "")
    \/ \E t \in LoginsInFlight : consume_admin_token_select(t)
    \/ \E t \in LoginsInFlight : consume_admin_token_delete(t)

TokenSpec == TokenInit /\ [][TokenNext]_vars

\* ------------------------------------------------- the game: properties
IsPermutationOf(seq, S) == Len(seq) = Cardinality(S) /\ Range(seq) = S

\* C1: when cb_start or cb_restart has passed the track-count check, the
\* GameState it puts into games[chat] has as order_ids every track id its
\* get_all_tracks returned exactly once and nothing else, and idx = 0,
\* whatever the chat's entry was before.
C1_StartInstallsPermutation ==
    [][\A t \in InFlight :
        (/\ t.pc = "shuffle"
         /\ cb_start_shuffle(t)
         /\ Len(t.tr) >= Max(MIN_TRACKS, 1))
        => /\ IsPermutationOf(games'[t.chat].order_ids,
                              {t.tr[i].id : i \in 1..Len(t.tr)})
           /\ games'[t.chat].idx = 0]_vars

\* a restart has just replaced a game that stood at idx = 1 (a handler
\* still holds the replaced object) by a fresh order of both tracks
C1_Witness ==
    \E c \in Chats :
        /\ out = <<Msg(c, "restart_game", 0, 0, 0, "none")>>
        /\ games[c] = GameState(<<2, 1>>, 0)
        /\ \E u \in InFlight : ~u.state.live /\ u.state.idx = 1

\* C2: in a chat with a game, game:next before the last track adds exactly 1
\* to idx, keeps order_ids and has send_current_track look up, and then
\* send, the track at the new idx; at the last track it changes nothing,
\* starts no send and sends END_GAME with the restart keyboard.
C2_NextAdvancesOrEnds ==
    [][/\ \A c \in Chats :
            (games[c] # NoGame /\ cb_next(c)) =>
            LET g == games[c]
            IN  IF g.idx < Len(g.order_ids) - 1
                THEN /\ games' = [games EXCEPT ![c] =
                                    GameState(g.order_ids, g.idx + 1)]
                     /\ out' = <<>>
                     /\ \E u \in BagToSet(tasks') :
                            /\ tasks' = tasks (+) SetToBag({u})
                            /\ u.kind = "cb_next" /\ u.chat = c
                            /\ u.pc = "get_track_by_id"
                            /\ u.tid = g.order_ids[g.idx + 2]
                ELSE /\ games' = games
                     /\ tasks' = tasks
                     /\ out' = <<Msg(c, "end_game", 0, 0, 0, "restart")>>
       /\ \A t \in InFlight :
            (t.kind = "cb_next" /\ send_current_track_select(t)) =>
            \E u \in BagToSet(tasks') :
                /\ tasks' = (tasks (-) SetToBag({t})) (+) SetToBag({u})
                /\ u.pc = "row"
                /\ u.row = IF t.tid \in DOMAIN tracks THEN tracks[t.tid]
                           ELSE None
                /\ u.row.id \in {0, t.tid}
       /\ \A t \in InFlight :
            (t.kind = "cb_next" /\ send_current_track_send(t)) =>
            /\ Len(out') = 1
            /\ IF t.row = None THEN out'[1].type = "not_found"
               ELSE /\ out'[1].type \in {"audio", "audio_failed"}
                    /\ out'[1].track = t.row.id
                    /\ out'[1].chat = t.chat
      ]_vars

\* an undisturbed run over two tracks in which one game:next advanced and a
\* later one has just ended the game
C2_Witness ==
    \E c \in Chats :
        /\ out = <<Msg(c, "end_game", 0, 0, 0, "restart")>>
        /\ walk[c].ok /\ walk[c].nexts = 2 /\ walk[c].ends = 1
        /\ games[c].idx = 1 /\ Len(games[c].order_ids) = 2

\* C3: in an undisturbed run (a successful start over n tracks, then no
\* start or restart, no deletion and no overlapping callback in the chat),
\* after k game:next callbacks idx = min(k, n-1), the send_audio calls so
\* far were for order_ids[0..min(k, n-1)] in that order, numbered 1, 2, ...
\* of n, and every game:next from the n-th on sent END_GAME and left the
\* state alone.
C3_WalksThePermutation ==
    \A c \in Chats :
        LET w == walk[c]
            g == games[c]
            n == Len(g.order_ids)
            k == w.nexts
        IN  (w.ok /\ ~Busy(c)) =>
            /\ g # NoGame
            /\ g.idx = Min(k, n - 1)
            /\ Len(w.sends) = Min(k, n - 1) + 1
            /\ \A j \in 1..Len(w.sends) :
                /\ w.sends[j].type \in {"audio", "audio_failed"}
                /\ w.sends[j].track = g.order_ids[j]
                /\ w.sends[j].i = j
                /\ w.sends[j].total = n
            /\ w.ends = Max(0, k - (n - 1))

\* an undisturbed run over all MaxTracks tracks, walked to the end and
\* followed by a further game:next
C3_Witness ==
    \E c \in Chats :
        /\ walk[c].ok /\ ~Busy(c)
        /\ Len(games[c].order_ids) = MaxTracks
        /\ Len(walk[c].sends) = MaxTracks
        /\ walk[c].ends >= 2

\* C4: no stretch of cb_hint or cb_answer changes games, whether the chat
\* has no game, the track or its hint is missing, or the send fails.
C4_HintAnswerKeepGames ==
    [][(\/ \E c \in Chats : cb_hint(c) \/ cb_answer(c)
        \/ \E t \in InFlight : cb_hint_send(t) \/ cb_answer_send(t))
       => games' = games]_vars

\* cb_hint has just answered "no hint" for the track without a hint image,
\* in a chat whose game stands at idx = 1
C4_Witness ==
    \E c \in Chats :
        /\ out = <<Msg(c, "no_hint", 0, 0, 0, "none")>>
        /\ games[c].idx = 1
        /\ current_id(games[c]) = 1


\* ------------------------------------------------------ the admin panel
\* the uploads and archives the requests carry
Mp3 == Upload(1, 0, 1)
Png == Upload(1, 2, 1)
Zip == Archive(1, (<<"hints", 12>> :> 1) @@ (<<"elsewhere", 1>> :> 1), NoDb)
ZipDb == Archive(1, <<>>, EmptyDb)

\* an empty database, nobody logged in, one user who has sent /start
PanelInit ==
    /\ tracks = <<>>
    /\ next_id = 1
    /\ games = [c \in Chats |-> NoGame]
    /\ tasks = EmptyBag
    /\ out = <<>>
    /\ walk = [c \in Chats |-> NoWalk]
    /\ poll = Polling
    /\ starts = <<>>
    /\ WebInit
    /\ SESSION_SECRET \in Secrets
    /\ seen = [c \in Clients |-> {}]
    /\ users = [u \in {2002} |-> [username |-> 0, first_name |-> 0,
                                    last_name |-> 0]]

\* the admin's browser logs in with whatever it has; a stranger's browser
\* tries the login without the secret and without a token
Admins == {"browser1"}

\* The panel is driven through every route by both browsers; the admin
\* asks for one link, uploads one track and drafts one broadcast, and the
\* requests name the first track and the first broadcast.
PanelNext ==
    \/ \E u \in ADMIN_IDS : Len(issued) = 0 /\ admin_link_cmd(u)
    \/ \E c \in Admins, p \in Passwords : login_post(c, NoKey, p)
    \/ \E c \in Clients \ Admins : login_post(c, NoKey, "guess")
    \/ \E c \in Admins, k \in Keys, p \in {"", "hunter2"} :
            logins = EmptyBag /\ login_post(c, k, p)
    \/ \E c \in Clients \ Admins : logins = EmptyBag /\ login_post(c, BadKey, "")
    \/ \E t \in LoginsInFlight : consume_admin_token_select(t)
    \/ \E t \in LoginsInFlight : consume_admin_token_delete(t)
    \/ \E c \in Clients : logout(c)
    \/ \E c \in Clients, k \in DOMAIN admin_tokens \cup {NoKey} :
            tracks_page(c, k)
    \/ \E c \in Clients : next_id = 1 /\ upload_track(c, 1, Mp3, Png)
    \/ \E c \in Clients : edit_track_page(c, 1)
    \/ \E c \in Clients : edit_track_post(c, 1, 2, NoUpload, NoUpload)
    \/ \E c \in Clients : delete_track_post(c, 1)
    \/ \E c \in Clients : backup_download(c)
    \/ \E c \in Clients, a \in {NoArchive, Zip, ZipDb} : backup_restore(c, a)
    \/ \E c \in Clients : broadcasts_list(c)
    \/ \E c \in Clients : broadcasts_new(c)
    \/ \E c \in Clients :
            next_bid = 1 /\ broadcasts_preview(c, 1, 1, <<Png>>, <<>>, <<>>)
    \/ \E c \in Clients : broadcasts_del(c, 1)
    \/ \E c \in Clients : broadcasts_send(c, 1)

PanelSpec == PanelInit /\ [][PanelNext]_vars

\* ------------------------------------------- the token store: properties
\* C5: admin tokens are one-time-use: however the consume_admin_token
\* calls for a token interleave, at most one of them returns a user id.
C5_TokenGrantedAtMostOnce ==
    \A k \in Tokens : granted[k] <= 1

\* C6: when consume_admin_token(t) completes, the table holds no row with
\* token t, whether t was valid, expired or unknown, and the rows of all
\* other tokens are as they were.
C6_ConsumeDeletesItsTokenOnly ==
    [][\A t \in LoginsInFlight :
        (t.pc = "DELETE" /\ consume_admin_token_delete(t))
        => /\ t.key \notin DOMAIN admin_tokens'
           /\ DOMAIN admin_tokens' = DOMAIN admin_tokens \ {t.key}
           /\ \A k \in DOMAIN admin_tokens' :
                admin_tokens'[k] = admin_tokens[k]]_vars

\* an expired token was consumed and the other token's row is still there
C6_Witness ==
    /\ web.op = "login_post" /\ web.key = 1 /\ web.user_id = NoUser
    /\ issued[1].expires_at < web.now
    /\ granted[1] = 0
    /\ DOMAIN admin_tokens = {2}

\* C8: create_admin_token(u, ttl) stores expires_at = creation time plus
\* ttl*60 seconds; consume_admin_token returns the user id exactly when the
\* row exists and expires_at >= the time of consumption, None otherwise; so
\* a token of /admin_link never authenticates more than 600 seconds after
\* its creation.
C8_TokenLifetime ==
    [][/\ \A u \in Users :
            (admin_link_cmd(u) /\ u \in ADMIN_IDS)
            => /\ DOMAIN admin_tokens' = DOMAIN admin_tokens \cup {Len(issued) + 1}
               /\ admin_tokens'[Len(issued) + 1] =
                    [user_id |-> u,
                     expires_at |-> clock \div Hz + TTL_MINUTES * 60]
       /\ \A t \in LoginsInFlight :
            (t.pc = "DELETE" /\ consume_admin_token_delete(t))
            => /\ web'.user_id =
                    IF t.row # NoTokenRow /\ t.row.expires_at >= t.now
                    THEN t.row.user_id ELSE NoUser
               /\ web'.user_id # NoUser
                    => /\ t.key \in 1..Len(issued)
                       /\ t.now - issued[t.key].created <= 600]_vars

\* a token was consumed in the last second of its life and let the user in
C8_Witness ==
    /\ web.op = "login_post" /\ web.key \in 1..Len(issued)
    /\ web.user_id = issued[web.key].user_id
    /\ web.now = issued[web.key].created + 600
    /\ session[web.client]


\* ------------------------------------------- the admin panel: properties
\* a request of client c to one of the guarded routes
guarded_route(c) ==
    \/ tracks_page(c, NoKey)
    \/ upload_track(c, 1, Mp3, Png)
    \/ edit_track_page(c, 1)
    \/ edit_track_post(c, 1, 2, NoUpload, NoUpload)
    \/ delete_track_post(c, 1)
    \/ backup_download(c)
    \/ \E a \in {NoArchive, Zip, ZipDb} : backup_restore(c, a)
    \/ broadcasts_list(c)
    \/ broadcasts_new(c)
    \/ broadcasts_preview(c, 1, 1, <<Png>>, <<>>, <<>>)
    \/ broadcasts_del(c, 1)
    \/ broadcasts_send(c, 1)

\* the tables and files behind the guarded routes, and what the bot sends
panel_data ==
    <<tracks, next_id, files, broadcasts, next_bid, broadcast_media, users, out>>

\* C7: following the link that /admin_link issues, GET /admin_web?key=<token>,
\* with an unused and unexpired token gives the browser an authenticated
\* session (adm_ok set) without a password.
C7_LinkBootstrapsSession ==
    [][\A c \in Clients, k \in Tokens :
        (/\ k \in DOMAIN admin_tokens
         /\ admin_tokens[k].expires_at >= int_time
         /\ tracks_page(c, k))
        => session'[c]]_vars

\* C9: a request to a tracks, backup/restore or broadcasts route changes
\* the database or the files only if its session has adm_ok; adm_ok is set
\* only by login_post, when a token was validly consumed or a non-empty
\* password equals SESSION_SECRET; logout clears it, and without it every
\* guarded route answers with the redirect to /admin_web/login and changes
\* nothing, until the next successful login.
C9_GuardedRoutesNeedLogin ==
    [][/\ panel_data' # panel_data
            => /\ web'.op = "route"
               /\ session[web'.client]
               /\ guarded_route(web'.client)
       /\ \A c \in Clients :
            (session'[c] /\ ~session[c])
            => /\ web'.op = "login_post" /\ web'.client = c
               /\ \/ \E t \in LoginsInFlight :
                        /\ t.client = c
                        /\ consume_admin_token_delete(t)
                        /\ \/ /\ t.key \in DOMAIN admin_tokens \cup 1..Len(issued)
                              /\ t.row # NoTokenRow
                              /\ t.row.expires_at >= t.now
                           \/ t.password # "" /\ t.password = SESSION_SECRET
                  \/ \E p \in Passwords :
                        /\ login_post(c, NoKey, p)
                        /\ p # "" /\ p = SESSION_SECRET
       /\ \A c \in Clients :
            /\ (web'.op = "logout" /\ logout(c)) => ~session'[c]
            /\ (~session[c] /\ web'.client = c /\ guarded_route(c))
               => /\ web' = Answer("_need_auth", c, "/admin_web/login")
                  /\ ~session'[c]
                  /\ panel_data' = panel_data
                  /\ admin_tokens' = admin_tokens]_vars

\* the browser that uploaded the track has logged out, and the guard has
\* answered its next request with the redirect
C9_Witness ==
    /\ tracks # <<>>
    /\ broadcasts # <<>>
    /\ ~session["browser1"]
    /\ web = Answer("_need_auth", "browser1", "/admin_web/login")


\* ------------------------------------------------------ the tracks table
\* the strings a caller may store (0 is the empty string)
Titles == {0, 1, 2}
Hints == {0, 1}
FileIds == {0, 1}

CrudInit ==
    /\ tracks = <<>>
    /\ next_id = 1
    /\ games = [c \in Chats |-> NoGame]
    /\ tasks = EmptyBag
    /\ out = <<>>
    /\ walk = [c \in Chats |-> NoWalk]
    /\ poll = Polling
    /\ starts = <<>>
    /\ WebInit
    /\ SESSION_SECRET = "hunter2"
    /\ seen = [c \in Clients |-> {}]
    /\ users = <<>>

CrudNext ==
    \/ \E t \in Titles, h \in Hints, f \in FileIds : create_track(t, h, f)
    \/ \E i \in 1..(MaxTracks + 1) : delete_track(i)

CrudSpec == CrudInit /\ [][CrudNext]_vars

\* every row but the one with id i is the same before and after the step
OtherRowsKept(i) ==
    \A j \in (DOMAIN tracks \cup DOMAIN tracks') \ {i} :
        /\ j \in DOMAIN tracks /\ j \in DOMAIN tracks'
        /\ tracks'[j] = tracks[j]

\* C10: after create_track(title, hint, file) has returned id i,
\* get_all_tracks holds exactly one row with id i, the row (i, title, hint,
\* file), and get_track_by_id(i) returns it; after delete_track(i),
\* get_track_by_id(i) returns nothing and get_all_tracks has no row with id
\* i, and delete_track returns True exactly when the row existed; either way
\* every other row is as it was.
C10_TrackRoundTrip ==
    [][/\ \A t \in Titles, h \in Hints, f \in FileIds :
            create_track(t, h, f)
            => \A i \in {add_track_result} :
               LET all == get_all_tracks'
               IN  /\ Cardinality({n \in 1..Len(all) : all[n].id = i}) = 1
                   /\ \E n \in 1..Len(all) : all[n] = Row(i, t, h, f)
                   /\ get_track_by_id(i)' = Row(i, t, h, f)
                   /\ OtherRowsKept(i)
       /\ \A i \in 1..(MaxTracks + 1) :
            delete_track(i)
            => LET all == get_all_tracks'
               IN  /\ get_track_by_id(i)' = None
                   /\ \A n \in 1..Len(all) : all[n].id # i
                   /\ remove_track_result(i) <=> (get_track_by_id(i) # None)
                   /\ OtherRowsKept(i)]_vars

\* the first track was created and deleted again, the second one is as it
\* was created
C10_Witness ==
    /\ next_id = 3
    /\ DOMAIN tracks = {2}
    /\ get_all_tracks = <<Row(2, 2, 1, 1)>>


\* ------------------------------- uploads and edits, stretch by stretch
\* The upload and edit handlers await between their SELECT, their file
\* writes and their INSERT/UPDATE; other requests run at those awaits.
MaxUploads == 2

\* an upload or edit request in flight, with its locals: old is the row the
\* edit has read, seq the number the upload has computed
Req(kind, client, track_id, title, audio, hint, old, seq, pc) ==
    [kind |-> kind, client |-> client, track_id |-> track_id,
     title |-> title, audio |-> audio, hint |-> hint, old |-> old,
     seq |-> seq, pc |-> pc]

\* `if audio and audio.filename`
has_file(up) == up # NoUpload /\ up.filename # 0

\* what the stretches of these handlers leave alone
stretch_frame ==
    UNCHANGED <<games, out, walk, poll, starts, admin_tokens, issued, clock, session,
                logins, granted, SESSION_SECRET, seen, broadcasts, next_bid,
                broadcast_media, users>>

\* the guard has answered a request of these handlers with the redirect
stretch_redirected(client) ==
    /\ web' = Answer("_need_auth", client, _need_auth(client))
    /\ UNCHANGED <<tracks, next_id, tasks, files>>
    /\ stretch_frame

\* edit_track_post up to `old = await get_track_by_id(track_id)`
edit_track_post_select(client, track_id, title, audio, hint) ==
    IF _need_auth(client) # "" THEN stretch_redirected(client)
    ELSE
        /\ CanDispatch
        /\ tasks' = Spawn(Req("edit", client, track_id, title, audio, hint,
                              get_track_by_id(track_id), 0, "files"))
        /\ UNCHANGED <<tracks, next_id, web, files>>
        /\ stretch_frame

\* edit_track_post: the hint and the audio are written under the track id
edit_track_post_files(t) ==
    /\ t.kind = "edit" /\ t.pc = "files"
    /\ LET hint_field == hint_path(t.track_id, ext_or_jpg(t.hint.ext))
           audio_field == audio_path(t.track_id)
           fs1 == IF has_file(t.hint)
                  THEN write_file(files, "hints", hint_field, t.hint.body)
                  ELSE files
       IN  files' = IF has_file(t.audio)
                    THEN write_file(fs1, "audio", audio_field, t.audio.body)
                    ELSE fs1
    /\ tasks' = Step(t, [t EXCEPT !.pc = "update"])
    /\ UNCHANGED <<tracks, next_id, web>>
    /\ stretch_frame

\* the title and hint that edit_track_post hands to update_track:
\* title or (old_title or ""), hint_field or (old_hint or "")
edit_title(t) ==
    IF t.title # 0 THEN t.title
    ELSE IF t.old # None THEN t.old.film_title ELSE 0
edit_hint(t) ==
    IF has_file(t.hint) THEN hint_path(t.track_id, ext_or_jpg(t.hint.ext))
    ELSE IF t.old # None THEN t.old.hint ELSE 0

\* edit_track_post: `if title or hint_field is not None: update_track(...)`
edit_track_post_update(t) ==
    /\ t.kind = "edit" /\ t.pc = "update"
    /\ tracks' = IF t.title # 0 \/ has_file(t.hint)
                 THEN update_track(tracks, t.track_id, edit_title(t),
                                   edit_hint(t))
                 ELSE tracks
    /\ tasks' = Step(t, [t EXCEPT !.pc = "update_file"])
    /\ UNCHANGED <<next_id, web, files>>
    /\ stretch_frame

\* edit_track_post: `if audio_field is not None: update_track_file(...)`,
\* then the redirect to the list
edit_track_post_update_file(t) ==
    /\ t.kind = "edit" /\ t.pc = "update_file"
    /\ tracks' = IF has_file(t.audio)
                 THEN update_track_file(tracks, t.track_id,
                                        audio_path(t.track_id))
                 ELSE tracks
    /\ tasks' = Drop(t)
    /\ web' = Answer("route", t.client, "ok")
    /\ UNCHANGED <<next_id, files>>
    /\ stretch_frame

\* upload_track up to `items = await get_all_tracks()`; seq = len(items) + 1
upload_track_select(client, title, audio, hint) ==
    IF _need_auth(client) # "" THEN stretch_redirected(client)
    ELSE
        /\ CanDispatch
        /\ next_id + BagCardinality(tasks) <= MaxUploads
        /\ tasks' = Spawn(Req("upload", client, 0, title, audio, hint, None,
                              Len(get_all_tracks) + 1, "files"))
        /\ UNCHANGED <<tracks, next_id, web, files>>
        /\ stretch_frame

\* the references upload_track stores: audio_field or "", hint_field or ""
upload_audio(t) == IF has_file(t.audio) THEN audio_path(t.seq) ELSE 0
upload_hint(t) ==
    IF has_file(t.hint) THEN hint_path(t.seq, ext_or_jpg(t.hint.ext)) ELSE 0

\* upload_track: the audio and the hint are written under seq
upload_track_files(t) ==
    /\ t.kind = "upload" /\ t.pc = "files"
    /\ LET fs1 == IF has_file(t.audio)
                  THEN write_file(files, "audio", upload_audio(t),
                                  t.audio.body)
                  ELSE files
       IN  files' = IF has_file(t.hint)
                    THEN write_file(fs1, "hints", upload_hint(t), t.hint.body)
                    ELSE fs1
    /\ tasks' = Step(t, [t EXCEPT !.pc = "insert"])
    /\ UNCHANGED <<tracks, next_id, web>>
    /\ stretch_frame

\* upload_track: create_track(title or f"Хит #{seq:02d}", ...), the redirect
upload_track_insert(t) ==
    /\ t.kind = "upload" /\ t.pc = "insert"
    /\ tracks' = add_track(IF t.title # 0 THEN t.title
                           ELSE default_title(t.seq),
                           upload_hint(t), upload_audio(t))
    /\ next_id' = next_id + 1
    /\ tasks' = Drop(t)
    /\ web' = Answer("route", t.client, "ok")
    /\ UNCHANGED files
    /\ stretch_frame

\* what an editor submits: a title alone, or a hint and an audio without
\* a title
EditForms == {<<2, NoUpload, NoUpload>>, <<0, Mp3, Png>>}

\* the playlist is uploaded and both browsers have logged in
StudioInit ==
    /\ BotInit
    /\ admin_tokens = <<>>
    /\ issued = <<>>
    /\ clock = 0
    /\ session = [c \in Clients |-> TRUE]
    /\ logins = EmptyBag
    /\ web = NoRequest
    /\ granted = [k \in Tokens |-> 0]
    /\ SESSION_SECRET = "hunter2"
    /\ seen = [c \in Clients |-> {}]
    /\ files = <<>>
    /\ broadcasts = <<>>
    /\ next_bid = 1
    /\ broadcast_media = <<>>
    /\ users = <<>>

StudioNext ==
    \/ \E i \in TrackIds, f \in EditForms :
            edit_track_post_select("browser1", i, f[1], f[2], f[3])
    \/ \E t \in InFlight : edit_track_post_files(t)
    \/ \E t \in InFlight : edit_track_post_update(t)
    \/ \E t \in InFlight : edit_track_post_update_file(t)
    \/ \E i \in TrackIds : delete_track_post("browser1", i)

StudioSpec == StudioInit /\ [][StudioNext]_vars

\* the row with just the submitted title and the uploaded hint replaced
edited(row, t) ==
    [row EXCEPT !.film_title = IF t.title # 0 THEN t.title ELSE @,
                !.hint = IF has_file(t.hint)
                         THEN hint_path(t.track_id, ext_or_jpg(t.hint.ext))
                         ELSE @]

C12_LookupFindsRow ==
    [][\A t \in InFlight :
        (/\ t.pc = "get_track_by_id"
         /\ \/ send_current_track_select(t)
            \/ cb_hint_send(t)
            \/ cb_answer_send(t))
        => get_track_by_id(t.tid) # None]_vars

\* C17: a chat's game state is created only by game:start or game:restart
\* (by the step of cb_start / cb_restart that passes the track-count check);
\* in a chat without a state, game:next, game:hint and game:answer create
\* none, start no lookup and send nothing, and no track, hint, answer or
\* end-of-game message goes to that chat.
C17_StateOnlyByStart ==
    [][\A c \in Chats :
        games[c] = NoGame
        => /\ (cb_next(c) \/ cb_hint(c) \/ cb_answer(c))
              => games' = games /\ tasks' = tasks /\ out' = <<>>
           /\ games'[c] # NoGame
              => \E t \in InFlight :
                    /\ t.chat = c
                    /\ t.kind \in {"cb_start", "cb_restart"}
                    /\ t.pc = "shuffle"
                    /\ enough_tracks(t.tr)
                    /\ cb_start_shuffle(t)
           /\ \A i \in 1..Len(out') :
                out'[i].chat = c
                => /\ out'[i].type \in {"warning", "start_game", "restart_game"}
                   /\ out'[i].type # "warning" => games'[c] # NoGame]_vars

\* game:start is in flight in a chat without a state, and a next, hint or
\* answer button was pressed there meanwhile: still no state, nothing else in
\* flight, nothing sent
C17_Witness ==
    /\ games["chatA"] = NoGame
    /\ tracks = Playlist
    /\ BagCardinality(tasks) = 1
    /\ \E t \in InFlight : t.chat = "chatA" /\ t.pc = "shuffle"
    /\ ~walk["chatA"].ok
    /\ out = <<>>

\* a GameState whose order_ids[idx] is a valid access
WellFormed(state) ==
    /\ Len(state.order_ids) >= 1
    /\ \A i, j \in 1..Len(state.order_ids) :
            i # j => state.order_ids[i] # state.order_ids[j]
    /\ state.idx >= 0
    /\ state.idx <= Len(state.order_ids) - 1

\* C19: in every reachable state every chat's game state, and every game
\* state object a handler in flight still holds, has a non-empty order_ids
\* without duplicates and 0 <= idx <= len(order_ids) - 1.
C19_IndexInRange ==
    /\ \A c \in Chats : games[c] # NoGame => WellFormed(games[c])
    /\ \A t \in InFlight :
            (t.pc \in {"get_track_by_id", "row"} /\ ~t.state.live)
            => WellFormed(t.state)

\* a game over the whole playlist stands at its last index, game:next has
\* just answered with the end-of-game message and a restart is in flight
C19_Witness ==
    \E c \in Chats :
        /\ games[c] # NoGame
        /\ Len(games[c].order_ids) = MaxTracks
        /\ games[c].idx = MaxTracks - 1
        /\ out = <<Msg(c, "end_game", 0, 0, 0, "restart")>>
        /\ \E t \in InFlight : t.chat = c /\ t.pc = "shuffle"

\* ------------------------------------------------ two chats at one bot
\* both chats start, restart and walk through their games, chatA also asks
\* for hints and answers; each chat presses one button at a time (its
\* handler has finished before its next callback arrives), the handlers of
\* the two chats overlap at their awaits; the playlist stays as it is
DuoNext ==
    \/ \E c \in Chats : ~Busy(c) /\ cb_start(c)
    \/ \E c \in Chats : ~Busy(c) /\ cb_restart(c)
    \/ \E t \in InFlight : cb_start_shuffle(t)
    \/ \E t \in InFlight : send_current_track(t)
    \/ \E t \in InFlight : send_current_track_select(t)
    \/ \E t \in InFlight : send_current_track_send(t)
    \/ \E c \in Chats : ~Busy(c) /\ cb_next(c)
    \/ \E c \in Players : ~Busy(c) /\ cb_hint(c)
    \/ \E c \in Players : ~Busy(c) /\ cb_answer(c)
    \/ \E t \in InFlight : cb_hint_send(t)
    \/ \E t \in InFlight : cb_answer_send(t)

DuoSpec == GameInit /\ [][DuoNext]_vars

\* a step of a handler of the chat: a callback arriving or a later stretch
StepOf(chat) ==
    \/ cb_start(chat) \/ cb_restart(chat)
    \/ cb_next(chat) \/ cb_hint(chat) \/ cb_answer(chat)
    \/ \E t \in InFlight :
        /\ t.chat = chat
        /\ \/ cb_start_shuffle(t)
           \/ send_current_track(t)
           \/ send_current_track_select(t)
           \/ send_current_track_send(t)
           \/ cb_hint_send(t)
           \/ cb_answer_send(t)

\* C18: no stretch of a start, restart, next, hint or answer handler of a
\* chat changes the entry of games (order_ids, idx, or its absence) of any
\* other chat, however the handlers of the two chats interleave: a step
\* that changes the entry of chat b is not a step of a handler of another
\* chat.
C18_PerChatState ==
    [][\A b \in Chats :
        games'[b] # games[b] => \A a \in Chats \ {b} : ~StepOf(a)]_vars

\* both chats play, in different orders and at different positions, and a
\* handler of each chat is in flight
C18_Witness ==
    /\ games["chatA"] = GameState(<<1, 2>>, 1)
    /\ games["chatB"] = GameState(<<2, 1>>, 0)
    /\ \E t, u \in InFlight : t.chat = "chatA" /\ u.chat = "chatB"

\* --------------------------------------------- the files of the tracks
\* what an uploader submits: an audio and a hint without a title, or a
\* title and an audio
UploadForms == {<<0, Mp3, Png>>, <<1, Mp3, NoUpload>>}

\* an empty database, both browsers have logged in
ShelfInit ==
    /\ tracks = <<>>
    /\ next_id = 1
    /\ games = [c \in Chats |-> NoGame]
    /\ tasks = EmptyBag
    /\ out = <<>>
    /\ walk = [c \in Chats |-> NoWalk]
    /\ poll = Polling
    /\ starts = <<>>
    /\ admin_tokens = <<>>
    /\ issued = <<>>
    /\ clock = 0
    /\ session = [c \in Clients |-> TRUE]
    /\ logins = EmptyBag
    /\ web = NoRequest
    /\ granted = [k \in Tokens |-> 0]
    /\ SESSION_SECRET = "hunter2"
    /\ seen = [c \in Clients |-> {}]
    /\ files = <<>>
    /\ broadcasts = <<>>
    /\ next_bid = 1
    /\ broadcast_media = <<>>
    /\ users = <<>>

\* uploads run stretch by stretch and overlap; edits and deletes run from
\* their guard to their redirect
ShelfNext ==
    \/ \E c \in Clients, f \in UploadForms :
            upload_track_select(c, f[1], f[2], f[3])
    \/ \E t \in InFlight : upload_track_files(t)
    \/ \E t \in InFlight : upload_track_insert(t)
    \/ \E i \in TrackIds, f \in EditForms :
            edit_track_post("browser1", i, f[1], f[2], f[3])
    \/ \E i \in TrackIds : delete_track_post("browser1", i)

ShelfSpec == ShelfInit /\ [][ShelfNext]_vars

\* C20: no two existing tracks refer to the same audio path or to the same
\* hint path.
C20_NoSharedFile ==
    \A i, j \in DOMAIN tracks :
        i # j =>
        /\ tracks[i].file_id # 0 => tracks[i].file_id # tracks[j].file_id
        /\ tracks[i].hint # 0 => tracks[i].hint # tracks[j].hint

\* ------------------------------------- the broadcast send, user by user
\* a broadcasts_send request in flight, with its locals; log is history:
\* the send calls the loop has made, as (user id, kind, delivered)
Send(client, bid, media, text, uids, i, sent, failed, log, pc) ==
    [client |-> client, bid |-> bid, media |-> media, text |-> text,
     uids |-> uids, i |-> i, sent |-> sent, failed |-> failed, log |-> log,
     pc |-> pc]

\* what the send stretches leave alone
send_frame ==
    /\ UNCHANGED <<games, walk, poll, starts, admin_tokens, issued, clock, session, logins,
                   granted, SESSION_SECRET, seen, files, next_bid, users>>
    /\ UNCHANGED dbVars

\* broadcasts_send up to `media = await broadcast_media(bid)`
broadcasts_send_media(client, bid) ==
    IF _need_auth(client) # ""
    THEN /\ web' = Answer("_need_auth", client, _need_auth(client))
         /\ UNCHANGED <<tasks, out, broadcasts, broadcast_media>>
         /\ send_frame
    ELSE /\ CanDispatch
         /\ tasks' = Spawn(Send(client, bid, get_broadcast_media(bid), 0,
                                <<>>, 1, 0, 0, <<>>, "broadcasts_all"))
         /\ out' = <<>>
         /\ UNCHANGED <<web, broadcasts, broadcast_media>>
         /\ send_frame

\* `for it in await broadcasts_all(): if it[0] == bid`: the text, or None
\* (0 here, as both are falsy in `if text`)
broadcasts_send_text(t) ==
    /\ t.pc = "broadcasts_all"
    /\ tasks' = Step(t, [t EXCEPT !.text = IF t.bid \in DOMAIN broadcasts
                                           THEN broadcasts[t.bid].text ELSE 0,
                                  !.pc = "get_all_user_ids"])
    /\ out' = <<>>
    /\ UNCHANGED <<web, broadcasts, broadcast_media>>
    /\ send_frame

\* `uids = await get_all_user_ids()`, sent = 0, failed = 0, the album
broadcasts_send_uids(t) ==
    /\ t.pc = "get_all_user_ids"
    /\ tasks' = Step(t, [t EXCEPT !.uids = get_all_user_ids, !.pc = "for"])
    /\ out' = <<>>
    /\ UNCHANGED <<web, broadcasts, broadcast_media>>
    /\ send_frame

send_kind_text_first(t) ==
    IF t.text # 0 THEN "message"
    ELSE IF t.media # <<>> THEN "media_group" ELSE "nothing"

\* what one pass of the loop calls: send_media_group `if album`,
\* send_message `if not album and text`, else nothing
send_kind(t) ==
    IF t.media # <<>> THEN "media_group"
    ELSE IF t.text # 0 THEN "message" ELSE "nothing"

\* `sent += 1` at the end of the try block
sent_after(t, ok) == IF ok THEN t.sent + 1 ELSE t.sent

\* `except Exception: failed += 1`
failed_after(t, ok) == IF ok THEN t.failed ELSE t.failed + 1

\* one pass of `for uid in uids` that awaits a send; ok = FALSE when the
\* send raises
broadcasts_send_one(t) ==
    /\ t.pc = "for"
    /\ t.i <= Len(t.uids)
    /\ send_kind(t) # "nothing"
    /\ \E ok \in BOOLEAN :
        /\ tasks' = Step(t, [t EXCEPT !.i = t.i + 1,
                                      !.sent = sent_after(t, ok),
                                      !.failed = failed_after(t, ok),
                                      !.log = Append(t.log, <<t.uids[t.i],
                                                     send_kind(t), ok>>)])
        /\ out' = <<Msg(t.uids[t.i], send_kind(t), t.bid,
                        IF ok THEN 1 ELSE 0, 0, "none")>>
    /\ UNCHANGED <<web, broadcasts, broadcast_media>>
    /\ send_frame

\* f"/admin_web/broadcasts?sent={sent}&failed={failed}"
sent_failed_url(sent, failed) ==
    "/admin_web/broadcasts?sent=" \o ToString(sent) \o "&failed="
        \o ToString(failed)

\* the loop is through (without an await when there is nothing to send:
\* every pass then only counts), `await broadcast_mark_sent(bid)` and the
\* redirect
broadcasts_send_mark(t) ==
    /\ t.pc = "for"
    /\ send_kind(t) # "nothing" => t.i > Len(t.uids)
    /\ LET sent == IF send_kind(t) = "nothing" THEN Len(t.uids) ELSE t.sent
       IN  web' = Answer("route", t.client, sent_failed_url(sent, t.failed))
    /\ broadcasts' = [b \in DOMAIN broadcasts |->
                        IF b = t.bid THEN [broadcasts[b] EXCEPT !.sent = TRUE]
                        ELSE broadcasts[b]]
    /\ tasks' = Drop(t)
    /\ out' = <<>>
    /\ UNCHANGED broadcast_media
    /\ send_frame

\* the users that have sent /start
Subscribers ==
    [u \in Users |-> [username |-> 0, first_name |-> 0, last_name |-> 0]]

\* the broadcasts an admin may compose: text (0 = none) and images
Drafts == {<<1, <<Png>>>>, <<1, <<>>>>, <<0, <<Png>>>>, <<0, <<>>>>}

\* two users have sent /start and the admin's browser has logged in
FanoutInit ==
    /\ BotInit
    /\ admin_tokens = <<>>
    /\ issued = <<>>
    /\ clock = 0
    /\ session = [c \in Clients |-> c \in Admins]
    /\ logins = EmptyBag
    /\ web = NoRequest
    /\ granted = [k \in Tokens |-> 0]
    /\ SESSION_SECRET = "hunter2"
    /\ seen = [c \in Clients |-> {}]
    /\ files = <<>>
    /\ broadcasts = <<>>
    /\ next_bid = 1
    /\ broadcast_media = <<>>
    /\ users = Subscribers

FanoutNext ==
    \/ \E d \in Drafts : broadcasts_preview("browser1", 1, d[1], d[2], <<>>, <<>>)
    \/ \E b \in 1..MaxBroadcasts : broadcasts_del("browser1", b)
    \/ \E c \in Clients, b \in 1..MaxBroadcasts : broadcasts_send_media(c, b)
    \/ \E t \in InFlight : broadcasts_send_text(t)
    \/ \E t \in InFlight : broadcasts_send_uids(t)
    \/ \E t \in InFlight : broadcasts_send_one(t)
    \/ \E t \in InFlight : broadcasts_send_mark(t)

FanoutSpec == FanoutInit /\ [][FanoutNext]_vars

\* the send calls a finished loop has made are one per user id of uids, in
\* their order, each of the given kind
OnePerUser(t, kind) ==
    /\ Len(t.log) = Len(t.uids)
    /\ \A j \in 1..Len(t.uids) : t.log[j][1] = t.uids[j] /\ t.log[j][2] = kind

\* C13 as stated: when the loop of a send request is through, every user id
\* that get_all_user_ids returned has had exactly one send call, a media
\* group when the broadcast has media and a single text message when it has
\* none, whether or not calls before it failed.
C13_OneSendPerUser ==
    [][\A t \in InFlight :
        (t.pc = "for" /\ broadcasts_send_mark(t))
        => OnePerUser(t, IF t.media # <<>> THEN "media_group"
                         ELSE "message")]_vars

\* C13, amended: when the loop of a send request is through, every user id
\* that get_all_user_ids returned has had exactly one send call, a media
\* group when the broadcast has media and a single text message when it has
\* no media but a text, whether or not calls before it failed; when the
\* broadcast has neither media nor text (or no longer exists) no send call
\* is made at all.
C13_OneSendPerUserUnlessEmpty ==
    [][\A t \in InFlight :
        /\ (t.pc = "for" /\ t.i <= Len(t.uids) /\ broadcasts_send_one(t))
           => /\ Len(out') = 1
              /\ out'[1].chat = t.uids[t.i]
              /\ out'[1].type = (IF t.media # <<>> THEN "media_group"
                                 ELSE "message")
        /\ (t.pc = "for" /\ broadcasts_send_mark(t))
           => /\ out' = <<>>
              /\ IF t.media # <<>> THEN OnePerUser(t, "media_group")
                 ELSE IF t.text # 0 THEN OnePerUser(t, "message")
                 ELSE t.log = <<>>]_vars

\* the loop of a send of a broadcast with media is through: the call to the
\* first user failed, the second user got the media group all the same
C13_Witness ==
    \E t \in InFlight :
        /\ t.pc = "for"
        /\ t.uids = <<1001, 2002>>
        /\ t.log = <<<<1001, "media_group", FALSE>>,
                     <<2002, "media_group", TRUE>>>>

\* the number of send calls in a log that were delivered / that raised
RECURSIVE Count(_, _)
Count(log, ok) ==
    IF log = <<>> THEN 0
    ELSE (IF Head(log)[3] = ok THEN 1 ELSE 0) + Count(Tail(log), ok)

\* C14: when the loop of a send request is through, the reported sent and
\* failed add up to the number of user ids, failed is the number of users
\* whose send raised, and sent is the number of users to whom a message was
\* sent without error.
C14_CountsMatchSends ==
    [][\A t \in InFlight :
        (t.pc = "for" /\ broadcasts_send_mark(t))
        => \E sent, failed \in 0..Len(t.uids) :
             /\ web'.status = sent_failed_url(sent, failed)
             /\ sent + failed = Len(t.uids)
             /\ failed = Count(t.log, FALSE)
             /\ sent = Count(t.log, TRUE)]_vars

\* ------------------------------------------------ run_bot and /start
MaxCrashes == 8
MaxStarts == 3

\* what the polling loop and /start leave alone
bot_frame ==
    /\ UNCHANGED <<games, walk, admin_tokens, issued, clock, session, logins,
                   web, granted, SESSION_SECRET, seen, files, broadcasts, next_bid,
                   broadcast_media>>
    /\ UNCHANGED dbVars

\* start_polling raises an Exception: the except branch, up to
\* `await asyncio.sleep(delay)`
polling_crashed ==
    /\ poll.pc = "start_polling"
    /\ poll.crashes < MaxCrashes
    /\ poll' = [poll EXCEPT !.pc = "sleep", !.crashes = @ + 1]
    /\ UNCHANGED <<tasks, out, users, starts>>
    /\ bot_frame

next_delay_uncapped(delay) == delay * 2

\* delay = min(delay * 2, 60)
next_delay(delay) == Min(delay * 2, 60)

\* the sleep is over, the delay is doubled and the loop calls start_polling
\* again; slept is history, the wait that has just ended
polling_restarted ==
    /\ poll.pc = "sleep"
    /\ poll' = [poll EXCEPT !.pc = "start_polling", !.slept = poll.delay,
                            !.delay = next_delay(poll.delay)]
    /\ UNCHANGED <<tasks, out, users, starts>>
    /\ bot_frame

\* start_polling returns: `break`
polling_finished ==
    /\ poll.pc = "start_polling"
    /\ poll' = [poll EXCEPT !.pc = "finished"]
    /\ UNCHANGED <<tasks, out, users, starts>>
    /\ bot_frame

\* m.from_user of a /start: username, first_name, last_name (0 is None)
Names(username, first_name, last_name) ==
    [username |-> username, first_name |-> first_name,
     last_name |-> last_name]
Profiles == {Names(0, 1, 0), Names(2, 1, 2)}

\* a start_cmd in flight
Start(user_id, names, pc) == [user_id |-> user_id, names |-> names, pc |-> pc]

\* /start arrives while the bot polls: start_cmd up to `await save_user(...)`
start_cmd(user_id, names) ==
    /\ poll.pc = "start_polling"
    /\ CanDispatch
    /\ Len(starts) + BagCardinality(tasks) < MaxStarts
    /\ tasks' = Spawn(Start(user_id, names, "save_user"))
    /\ out' = <<>>
    /\ UNCHANGED <<users, poll, starts>>
    /\ bot_frame

save_user_or_ignore(tbl, user_id, names) ==
    [u \in DOMAIN tbl \cup {user_id} |->
        IF u \in DOMAIN tbl THEN tbl[u] ELSE names]

\* INSERT INTO users ... ON CONFLICT(user_id) DO UPDATE SET username,
\* first_name, last_name: the table afterwards
save_user(tbl, user_id, names) ==
    [u \in DOMAIN tbl \cup {user_id} |->
        IF u = user_id THEN names ELSE tbl[u]]

\* the INSERT of save_user commits
start_cmd_save_user(t) ==
    /\ t.pc = "save_user"
    /\ users' = save_user(users, t.user_id, t.names)
    /\ starts' = Append(starts, <<t.user_id, t.names>>)
    /\ tasks' = Step(t, [t EXCEPT !.pc = "answer"])
    /\ out' = <<>>
    /\ UNCHANGED poll
    /\ bot_frame

\* start_cmd from get_setting on: the welcome photo or text
start_cmd_answer(t) ==
    /\ t.pc = "answer"
    /\ tasks' = Drop(t)
    /\ out' = <<Msg(t.user_id, "welcome", 0, 0, 0, "main")>>
    /\ UNCHANGED <<users, poll, starts>>
    /\ bot_frame

BotNext ==
    \/ polling_crashed
    \/ polling_restarted
    \/ polling_finished
    \/ \E u \in Users, n \in Profiles : start_cmd(u, n)
    \/ \E t \in InFlight : start_cmd_save_user(t)
    \/ \E t \in InFlight : start_cmd_answer(t)

BotSpec == GameInit /\ [][BotNext]_vars

\* asyncio.sleep(delay) returns
BotFairSpec == BotSpec /\ WF_vars(polling_restarted)

RECURSIVE Pow2(_)
Pow2(n) == IF n = 0 THEN 1 ELSE 2 * Pow2(n - 1)

\* C15: the wait before the k-th restart, after k crashes of start_polling,
\* is min(2^(k-1), 60) seconds; the delay is always between 1 and 60;
\* polling is restarted after every crash; and the loop ends only when
\* start_polling has returned without an exception.
C15_CappedBackoff ==
    /\ [](/\ poll.delay \in 1..60
          /\ poll.pc = "sleep" => poll.delay = Min(Pow2(poll.crashes - 1), 60)
          /\ (poll.pc # "sleep" /\ poll.crashes > 0)
             => poll.slept = Min(Pow2(poll.crashes - 1), 60))
    /\ [][/\ poll.pc = "sleep" /\ poll' # poll
             => poll'.pc = "start_polling" /\ poll'.crashes = poll.crashes
          /\ poll.pc = "finished" => poll' = poll
          /\ poll'.pc = "finished" /\ poll.pc # "finished"
             => poll.pc = "start_polling" /\ polling_finished]_vars
    /\ (poll.pc = "sleep") ~> (poll.pc = "start_polling")

\* polling has crashed seven times and runs again: the last wait was 60
\* seconds, not 64
C15_Witness ==
    /\ poll.crashes = 7
    /\ poll.pc = "start_polling"
    /\ poll.slept = 60
    /\ poll.delay = 60

\* the last names saved for a user in the history of /start commands
RECURSIVE LastNames(_, _)
LastNames(h, u) ==
    IF h[Len(h)][1] = u THEN h[Len(h)][2]
    ELSE LastNames(SubSeq(h, 1, Len(h) - 1), u)

C21_CaptionMatchesTrack ==
    [][\A t \in InFlight :
        (send_current_track_send(t) /\ t.row # None)
        => \A k \in 1..Len(out') :
            LET state == Deref(t)
            IN  /\ out'[k].total = Len(state.order_ids)
                /\ out'[k].i \in 1..Len(state.order_ids)
                /\ state.order_ids[out'[k].i] = out'[k].track]_vars

\* C22: when get_all_tracks returned fewer than max(MIN_TRACKS, 1) tracks,
\* game:start and game:restart send the warning (with the count and the
\* number needed) and leave games as it is: a chat without a state gets
\* none, a chat with a game keeps its order_ids and idx; and no chat's game
\* ever has an empty order.
C22_TooFewTracksWarns ==
    /\ [](\A c \in Chats :
            games[c] # NoGame => Len(games[c].order_ids) >= Max(MIN_TRACKS, 1))
    /\ [][\A t \in InFlight :
            (/\ t.pc = "shuffle"
             /\ Len(t.tr) < Max(MIN_TRACKS, 1)
             /\ cb_start_shuffle(t))
            => /\ games' = games
               /\ tasks' = Drop(t)
               /\ out' = <<Msg(t.chat, "warning", 0, Len(t.tr),
                               Max(MIN_TRACKS, 1), "none")>>]_vars

\* the playlist was emptied during a game, and a restart of that chat has
\* just answered with the warning: the game is as it was, one track on
C22_Witness ==
    \E c \in Chats :
        /\ tracks = <<>>
        /\ games[c] # NoGame
        /\ games[c].idx = 1
        /\ Len(games[c].order_ids) = MaxTracks
        /\ tasks = EmptyBag
        /\ out = <<Msg(c, "warning", 0, 0, Max(MIN_TRACKS, 1), "none")>>

\* the track at the chat's current index is no longer in the table
current_deleted(chat) ==
    /\ games[chat] # NoGame
    /\ get_track_by_id(current_id(games[chat])) = None

\* C23: when the looked-up track was deleted, send_current_track sends the
\* not-found message and no audio, hint and answer send nothing, and games
\* stays as it is; game:next in a chat whose current track was deleted
\* still adds 1 to idx before the last index and sends END_GAME at the
\* last, so a deleted track does not keep the game from its end.
C23_DeletedTrackSkipped ==
    [][/\ \A t \in InFlight :
            /\ (send_current_track_send(t) /\ t.row = None)
               => /\ out' = <<Msg(t.chat, "not_found", 0, 0, 0, "none")>>
                  /\ games' = games
                  /\ tasks' = Drop(t)
            /\ (/\ t.pc = "get_track_by_id"
                /\ get_track_by_id(t.tid) = None
                /\ (cb_hint_send(t) \/ cb_answer_send(t)))
               => /\ out' = <<>>
                  /\ games' = games
                  /\ tasks' = Drop(t)
       /\ \A c \in Chats :
            (current_deleted(c) /\ cb_next(c))
            => IF games[c].idx < Len(games[c].order_ids) - 1
               THEN /\ games'[c].idx = games[c].idx + 1
                    /\ games'[c].order_ids = games[c].order_ids
               ELSE /\ games' = games
                    /\ out' = <<Msg(c, "end_game", 0, 0, 0, "restart")>>]_vars

\* every track was deleted during a game; game:next has moved the chat to
\* its last index and send_current_track has answered "not found"
C23_Witness ==
    \E c \in Chats :
        /\ tracks = <<>>
        /\ games[c] # NoGame
        /\ Len(games[c].order_ids) = MaxTracks
        /\ games[c].idx = MaxTracks - 1
        /\ out = <<Msg(c, "not_found", 0, 0, 0, "none")>>

\* ------------------------------------------- admin tokens, continued
\* C24: every row create_admin_token has ever inserted into admin_tokens,
\* and every row of the table, has a user_id in ADMIN_IDS; /admin_link from
\* a user outside ADMIN_IDS answers NEED_ADMIN, creates no token and leaves
\* admin_tokens as it is.
C24_TokensOnlyForAdmins ==
    /\ [](/\ \A k \in 1..Len(issued) : issued[k].user_id \in ADMIN_IDS
          /\ \A k \in DOMAIN admin_tokens :
                admin_tokens[k].user_id \in ADMIN_IDS)
    /\ [][\A u \in Users \ ADMIN_IDS :
            admin_link_cmd(u)
            => /\ admin_tokens' = admin_tokens
               /\ issued' = issued
               /\ web'.status = "NEED_ADMIN"]_vars

\* an admin holds an unused token, and a user who is no admin has just
\* asked for a link and was refused
C24_Witness ==
    /\ Len(issued) = 1
    /\ DOMAIN admin_tokens = {1}
    /\ admin_tokens[1].user_id \in ADMIN_IDS
    /\ web.op = "admin_link_cmd"
    /\ web.user_id \in Users \ ADMIN_IDS
    /\ web.status = "NEED_ADMIN"

\* ------------------------------------------------ the /uploads mount
\* app.mount("/uploads", StaticFiles(directory="uploads")): the mount has
\* no guard. GET /uploads/db.sqlite3 answers with the database file
\* (DB_PATH is "uploads/db.sqlite3"), and with it the rows of admin_tokens
static_uploads_db(client) ==
    /\ seen' = [seen EXCEPT ![client] = @ \cup DOMAIN admin_tokens]
    /\ web' = Answer("uploads/db.sqlite3", client, "ok")
    /\ UNCHANGED <<admin_tokens, issued, clock, session, logins, granted,
                   SESSION_SECRET>>
    /\ UNCHANGED panelVars
    /\ UNCHANGED gameVars
    /\ UNCHANGED dbVars

\* GET /uploads/<directory>/<name>: a stored audio or hint file
static_uploads_file(client, path) ==
    /\ path \in DOMAIN files
    /\ web' = Answer("uploads/file", client, "ok")
    /\ UNCHANGED <<admin_tokens, issued, clock, session, logins, granted,
                   SESSION_SECRET, seen>>
    /\ UNCHANGED panelVars
    /\ UNCHANGED gameVars
    /\ UNCHANGED dbVars

\* the stranger's browser, which gets no link and does not know the secret
Strangers == Clients \ Admins

\* one hint image is stored, nobody has logged in
LeakInit ==
    /\ BotInit
    /\ admin_tokens = <<>>
    /\ issued = <<>>
    /\ clock = 0
    /\ session = [c \in Clients |-> FALSE]
    /\ logins = EmptyBag
    /\ web = NoRequest
    /\ granted = [k \in Tokens |-> 0]
    /\ SESSION_SECRET = "hunter2"
    /\ seen = [c \in Clients |-> {}]
    /\ files = (<<"hints", 12>> :> 1)
    /\ broadcasts = <<>>
    /\ next_bid = 1
    /\ broadcast_media = <<>>
    /\ users = <<>>

\* The admin asks for links and logs in with them; the stranger's browser
\* reads what /uploads serves and logs in with what it has read there; one
\* login is in flight at a time.
LeakNext ==
    \/ \E u \in Users : admin_link_cmd(u)
    \/ \E d \in Jumps : Tick(d)
    \/ \E c \in Admins, k \in Keys : logins = EmptyBag /\ login_post(c, k, "")
    \/ \E c \in Strangers :
            \E k \in seen[c] \cup {BadKey} :
                logins = EmptyBag /\ login_post(c, k, "")
    \/ \E t \in LoginsInFlight : consume_admin_token_select(t)
    \/ \E t \in LoginsInFlight : consume_admin_token_delete(t)
    \/ \E c \in Strangers : static_uploads_db(c)
    \/ \E c \in Strangers, p \in DOMAIN files : static_uploads_file(c, p)
    \/ \E c \in Strangers : tracks_page(c, NoKey)

LeakSpec == LeakInit /\ [][LeakNext]_vars

\* C25: a client that got no link and does not know the secret has read
\* no admin token from any response and has no authenticated session.
C25_NoTokenDisclosed ==
    \A c \in Strangers : seen[c] = {} /\ ~session[c]

====
